---- MODULE Spec2Model ----
(***************************************************************************)
(* A model of ai_yt_summary.py: the module-level argument checks, the      *)
(* prompt loader, the two fetchers, the summarizer call, the filename      *)
(* construction and the file writer, run against a filesystem that         *)
(* outlives a run.  Text is modelled as sequences of one-character         *)
(* strings, so that sanitisation, truncation and parsing are computed.     *)
(***************************************************************************)
EXTENDS Naturals, Sequences, FiniteSets, TLC

VARIABLES
    env_has_key,        \* "OPENAI_API_KEY" in os.environ, after load_dotenv()
    argv,               \* sys.argv, argv[1] being the script name
    ini,                \* prompts.ini: NoFile, or its sections in file order
    clock,              \* seconds of wall-clock time, read by datetime.now()
    dir_exists,         \* whether the directory yt_summaries exists
    fs,                 \* the files on disk: path -> content
    pc,                 \* position of the running script
    exit_code,          \* Running, 0 or 1
    error,              \* the step whose failure ended the run, or "none"
    video_id, prompt_id, prompts, yt_title, ytt_fulltext, prompt,
    oai_response_text, outfile,     \* the script's variables
    web_title,          \* the title the oEmbed endpoint holds for the video
    calls,              \* the requests this run has issued, in order
    runs,               \* number of runs started so far
    start_disk,         \* the disk as it was when this run started
    history             \* the runs that ended with status 0: video id, second, path

vars == <<env_has_key, argv, ini, clock, dir_exists, fs, pc, exit_code, error,
          video_id, prompt_id, prompts, yt_title, ytt_fulltext, prompt,
          oai_response_text, outfile, web_title, calls, runs,
          start_disk, history>>

\* ------------------------------------------------------------------ bounds

MaxRuns == 2
MaxTick == 1
MaxTitleLen == 2
MaxLines == 2

\* ------------------------------------------------------------- characters

Lowers == <<"a","b","c","d","e","f","g","h","i","j","k","l","m",
            "n","o","p","q","r","s","t","u","v","w","x","y","z">>
Uppers == <<"A","B","C","D","E","F","G","H","I","J","K","L","M",
            "N","O","P","Q","R","S","T","U","V","W","X","Y","Z">>
Digits == <<"0","1","2","3","4","5","6","7","8","9">>

Range(s) == { s[i] : i \in DOMAIN s }

NL == "\n"
Whitespace == {" ", NL, "\t"}

\* str.lower() on one character
LowerChar(c) ==
    IF c \in Range(Uppers)
    THEN Lowers[CHOOSE i \in DOMAIN Uppers : Uppers[i] = c]
    ELSE c

Lower(s) == [i \in DOMAIN s |-> LowerChar(s[i])]

\* s[:n]
Take(s, n) == SubSeq(s, 1, IF Len(s) < n THEN Len(s) ELSE n)

\* ------------------------------------------------------------ str helpers

\* str.replace(' ', '-')
ReplaceSpaces(s) == [i \in DOMAIN s |-> IF s[i] = " " THEN "-" ELSE s[i]]

\* str.rstrip() and str.strip()
RECURSIVE RStrip(_)
RStrip(s) ==
    IF s = <<>> THEN <<>>
    ELSE IF s[Len(s)] \in Whitespace THEN RStrip(SubSeq(s, 1, Len(s) - 1))
    ELSE s

RECURSIVE LStrip(_)
LStrip(s) ==
    IF s = <<>> THEN <<>>
    ELSE IF s[1] \in Whitespace THEN LStrip(Tail(s))
    ELSE s

Strip(s) == LStrip(RStrip(s))

\* "\n".join(lines)
RECURSIVE JoinLines(_)
JoinLines(lines) ==
    IF lines = <<>> THEN <<>>
    ELSE IF Len(lines) = 1 THEN lines[1]
    ELSE lines[1] \o <<NL>> \o JoinLines(Tail(lines))

\* ------------------------------------------------------------ configparser

CommentPrefixes == {"#", ";"}
Delimiters == {"=", ":"}

\* The option name configparser takes from one line of a section: the text
\* before the first delimiter, right-stripped, passed through optionxform
\* (str.lower).
RECURSIVE BeforeDelimiter(_)
BeforeDelimiter(s) ==
    IF s = <<>> THEN <<>>
    ELSE IF s[1] \in Delimiters THEN <<>>
    ELSE <<s[1]>> \o BeforeDelimiter(Tail(s))

OptionName(line) == Lower(RStrip(BeforeDelimiter(Strip(line))))

\* Blank lines and full-line comments are not options.
IsSkipped(line) ==
    \/ Strip(line) = <<>>
    \/ Strip(line)[1] \in CommentPrefixes

Raised == [ok |-> FALSE, val |-> <<>>]
Returned(v) == [ok |-> TRUE, val |-> v]

\* The keys of config._sections[section] in insertion order; the parser
\* raises when a line has an empty option name (ParsingError) or repeats an
\* option of the section (DuplicateOptionError, the parser being strict).
RECURSIVE SectionKeys(_, _)
SectionKeys(lines, keys) ==
    IF lines = <<>> THEN Returned(keys)
    ELSE IF IsSkipped(lines[1]) THEN SectionKeys(Tail(lines), keys)
    ELSE IF OptionName(lines[1]) = <<>> THEN Raised
    ELSE IF OptionName(lines[1]) \in Range(keys) THEN Raised
    ELSE SectionKeys(Tail(lines), Append(keys, OptionName(lines[1])))

\* The sections of the file in order, as [name, keys]; a section header seen
\* twice raises DuplicateSectionError.
RECURSIVE ReadSections(_, _)
ReadSections(sections, done) ==
    IF sections = <<>> THEN Returned(done)
    ELSE IF \E i \in DOMAIN done : done[i].name = sections[1].name THEN Raised
    ELSE IF ~SectionKeys(sections[1].lines, <<>>).ok THEN Raised
    ELSE ReadSections(Tail(sections),
            Append(done, [name |-> sections[1].name,
                          keys |-> SectionKeys(sections[1].lines, <<>>).val]))

\* config.read('prompts.ini'): a file that is not there is skipped silently.
ConfigRead(file) ==
    IF ~file.present THEN Returned(<<>>) ELSE ReadSections(file.sections, <<>>)

\* ------------------------------------------------------------ load_prompts

PROMPT0 == <<"p","r","o","m","p","t"," ","0">>
DefaultPrompt == <<"Please provide a summary of the following video transcript.">>

\* prompts[section] = "\n".join(config._sections[section]).strip(), for the
\* sections in order (a later assignment to the same key wins).
RECURSIVE SectionEntries(_, _)
SectionEntries(parsed, acc) ==
    IF parsed = <<>> THEN acc
    ELSE SectionEntries(Tail(parsed),
            [k \in DOMAIN acc \cup {parsed[1].name} |->
                IF k = parsed[1].name THEN Strip(JoinLines(parsed[1].keys))
                ELSE acc[k]])

Empty == [k \in {} |-> <<>>]

\* load_prompts without line 44
WithFallback_Missing(m) == m

WithFallback(m) ==
    [k \in DOMAIN m \cup {PROMPT0} |-> IF k = PROMPT0 THEN DefaultPrompt ELSE m[k]]

load_prompts(file) ==
    IF ~ConfigRead(file).ok THEN [ok |-> FALSE, val |-> Empty]
    ELSE Returned(WithFallback(SectionEntries(ConfigRead(file).val, Empty)))

\* ------------------------------------------------------------ make_filename

TitleMax == 30

OutDir == <<"y","t","_","s","u","m","m","a","r","i","e","s">>
Ext == <<".","t","x","t">>

\* re.sub(r'[^a-zA-Z0-9 ]', '', s)
IsKept(c) == c \in Range(Lowers) \cup Range(Uppers) \cup Range(Digits) \cup {" "}
StripSpecials(s) == SelectSeq(s, IsKept)

TwoDigits(n) == <<Digits[((n \div 10) % 10) + 1], Digits[(n % 10) + 1]>>

\* a timestamp cut at the minute: "%Y%m%d%H%M"
DateString_NoSeconds(t) ==
    <<"2","0","2","6","1","1","0","4","1","6">>
        \o TwoDigits((t \div 60) % 60) \o <<"0","0">>

\* now.strftime("%Y%m%d%H%M%S"), the clock counting the seconds of one hour
\* of one day.
DateString(t) ==
    <<"2","0","2","6","1","1","0","4","1","6">>
        \o TwoDigits((t \div 60) % 60) \o TwoDigits(t % 60)

\* os.path.join(a, b)
PathJoin(a, b) == IF b # <<>> /\ b[1] = "/" THEN b ELSE a \o <<"/">> \o b

\* line 86 with the slice taken before the substitution
make_filename_TruncateFirst(title, vid, t) ==
    PathJoin(OutDir,
        ReplaceSpaces(DateString(t) \o <<"_">> \o vid \o <<"_">>
                        \o StripSpecials(Take(title, TitleMax)) \o Ext))

make_filename(title, vid, t) ==
    PathJoin(OutDir,
        ReplaceSpaces(DateString(t) \o <<"_">> \o vid \o <<"_">>
                        \o Take(StripSpecials(title), TitleMax) \o Ext))

\* os.path.dirname(path)
RECURSIVE DirName(_)
DirName(path) ==
    IF path = <<>> THEN <<>>
    ELSE IF path[Len(path)] = "/" THEN SubSeq(path, 1, Len(path) - 1)
    ELSE DirName(SubSeq(path, 1, Len(path) - 1))

\* ------------------------------------------------------------ get_transcript

\* ' '.join(ytt_lines); textwrap.fill leaves a text shorter than its width
\* of 80 columns on one line.
RECURSIVE JoinWords(_)
JoinWords(words) ==
    IF words = <<>> THEN <<>>
    ELSE IF Len(words) = 1 THEN words[1]
    ELSE words[1] \o <<" ">> \o JoinWords(Tail(words))

WebSnippets == << <<"h","i">>, <<"a","l","l">> >>
WebSummary == <<"T","L","D","R">>

\* ------------------------------------------------------------------ values

Unset == <<"<unset>">>
Script == <<"ai_yt_summary.py">>
PromptPrefix == <<"p","r","o","m","p","t"," ">>
One == <<"1">>
Zero == <<"0">>        \* str(0), the value prompt_id has without a file

Running == <<>>
Exit(n) == <<n>>

AbsentFile == [present |-> FALSE, sections |-> <<>>]
File(sections) == [present |-> TRUE, sections |-> sections]

\* --------------------------------------------------------------- the script

\* An uncaught exception, or sys.exit(1): the run is over.
Fail(step) ==
    /\ pc' = "exited"
    /\ exit_code' = Exit(1)
    /\ error' = step

world == <<env_has_key, argv, ini, clock, web_title, runs, start_disk>>
locals == <<video_id, prompt_id, prompts, yt_title, ytt_fulltext, prompt,
            oai_response_text, outfile>>
disk == <<dir_exists, fs>>

\* a run that goes on without looking for the credential
CheckCredential_NoCheck ==
    /\ pc = "start"
    /\ pc' = "check_args"
    /\ UNCHANGED <<world, history, locals, disk, calls, exit_code, error>>

\* lines 17-20
CheckCredential ==
    /\ pc = "start"
    /\ IF ~env_has_key
       THEN Fail("credential")
       ELSE pc' = "check_args" /\ UNCHANGED <<exit_code, error>>
    /\ UNCHANGED <<world, history, locals, disk, calls>>

\* lines 21-23
CheckArgs ==
    /\ pc = "check_args"
    /\ IF Len(argv) < 2
       THEN Fail("usage")
       ELSE pc' = "bind_args" /\ UNCHANGED <<exit_code, error>>
    /\ UNCHANGED <<world, history, locals, disk, calls>>

\* lines 24-29
BindArgs ==
    /\ pc = "bind_args"
    /\ video_id' = argv[2]
    /\ prompt_id' = IF ini.present
                    THEN (IF Len(argv) > 2 THEN argv[3] ELSE One)
                    ELSE Zero
    /\ pc' = "load_prompts"
    /\ UNCHANGED <<world, history, disk, calls, exit_code, error, prompts, yt_title,
                   ytt_fulltext, prompt, oai_response_text, outfile>>

\* line 104
LoadPrompts ==
    /\ pc = "load_prompts"
    /\ IF load_prompts(ini).ok
       THEN /\ prompts' = load_prompts(ini).val
            /\ pc' = "get_title"
            /\ UNCHANGED <<exit_code, error>>
       ELSE Fail("config") /\ UNCHANGED prompts
    /\ UNCHANGED <<world, history, disk, calls, video_id, prompt_id, yt_title,
                   ytt_fulltext, prompt, oai_response_text, outfile>>

\* line 105: one GET; raise_for_status or a body without "title" raises
GetTitle ==
    /\ pc = "get_title"
    /\ calls' = Append(calls, <<"title", video_id>>)
    /\ \E ok \in BOOLEAN :
        IF ok
        THEN /\ yt_title' = web_title
             /\ pc' = "get_transcript"
             /\ UNCHANGED <<exit_code, error>>
        ELSE Fail("title") /\ UNCHANGED yt_title
    /\ UNCHANGED <<world, history, disk, video_id, prompt_id, prompts,
                   ytt_fulltext, prompt, oai_response_text, outfile>>

\* a fetcher that swallows the provider's exception and returns no text
GetTranscript_Swallow ==
    /\ pc = "get_transcript"
    /\ calls' = Append(calls, <<"transcript", video_id>>)
    /\ \E ok \in BOOLEAN :
        /\ ytt_fulltext' = IF ok THEN JoinWords(WebSnippets) ELSE Unset
        /\ pc' = "select_prompt"
        /\ UNCHANGED <<exit_code, error>>
    /\ UNCHANGED <<world, history, disk, video_id, prompt_id, prompts,
                   yt_title, prompt, oai_response_text, outfile>>

\* line 106: one fetch; the provider raises when there is no transcript
GetTranscript ==
    /\ pc = "get_transcript"
    /\ calls' = Append(calls, <<"transcript", video_id>>)
    /\ \E ok \in BOOLEAN :
        IF ok
        THEN /\ ytt_fulltext' = JoinWords(WebSnippets)
             /\ pc' = "select_prompt"
             /\ UNCHANGED <<exit_code, error>>
        ELSE Fail("transcript") /\ UNCHANGED ytt_fulltext
    /\ UNCHANGED <<world, history, disk, video_id, prompt_id, prompts,
                   yt_title, prompt, oai_response_text, outfile>>

\* line 107: a membership test, then a subscript (KeyError if it misses)
SelectPrompt ==
    /\ pc = "select_prompt"
    /\ IF PromptPrefix \o prompt_id \in DOMAIN prompts
       THEN /\ prompt' = prompts[PromptPrefix \o prompt_id]
            /\ pc' = "summarize"
            /\ UNCHANGED <<exit_code, error>>
       ELSE IF PROMPT0 \in DOMAIN prompts
       THEN /\ prompt' = prompts[PROMPT0]
            /\ pc' = "summarize"
            /\ UNCHANGED <<exit_code, error>>
       ELSE Fail("lookup") /\ UNCHANGED prompt
    /\ UNCHANGED <<world, history, disk, calls, video_id, prompt_id, prompts,
                   yt_title, ytt_fulltext, oai_response_text, outfile>>

\* line 108 and lines 71-78: one request carrying prompt, blank line, transcript
Summarize ==
    /\ pc = "summarize"
    /\ calls' = Append(calls, <<"llm", prompt \o <<NL, NL>> \o ytt_fulltext>>)
    /\ \E ok \in BOOLEAN :
        IF ok
        THEN /\ oai_response_text' = WebSummary
             /\ pc' = "make_filename"
             /\ UNCHANGED <<exit_code, error>>
        ELSE Fail("llm") /\ UNCHANGED oai_response_text
    /\ UNCHANGED <<world, history, disk, video_id, prompt_id, prompts,
                   yt_title, ytt_fulltext, prompt, outfile>>

\* line 109
MakeFilename ==
    /\ pc = "make_filename"
    /\ outfile' = make_filename(yt_title, video_id, clock)
    /\ pc' = "makedirs"
    /\ UNCHANGED <<world, history, disk, calls, exit_code, error, video_id, prompt_id,
                   prompts, yt_title, ytt_fulltext, prompt, oai_response_text>>

\* save_file writing the title as it stands in the filename
FileData_SanitizedTitle(k, title, response_text, fulltext) ==
    CASE k = 1 -> Take(StripSpecials(title), TitleMax) \o <<NL, NL>>
      [] k = 2 -> response_text
      [] k = 3 -> <<NL, NL>>
      [] k = 4 -> fulltext

\* lines 96-101: the k-th string save_file hands to fd.write
FileData(k, title, response_text, fulltext) ==
    CASE k = 1 -> title \o <<NL, NL>>
      [] k = 2 -> response_text
      [] k = 3 -> <<NL, NL>>
      [] k = 4 -> fulltext

\* line 96: os.makedirs(..., exist_ok=True); an OSError is not caught
MakeDirs ==
    /\ pc = "makedirs"
    /\ calls' = Append(calls, <<"makedirs", OutDir>>)
    /\ \E ok \in BOOLEAN :
        IF ok \/ dir_exists
        THEN /\ dir_exists' = TRUE
             /\ pc' = "open"
             /\ UNCHANGED <<exit_code, error>>
        ELSE Fail("makedirs") /\ UNCHANGED dir_exists
    /\ UNCHANGED <<world, history, locals, fs>>

\* line 97: open(outfile, 'w') creates the file, or empties the one that is
\* there; it raises when the directory of outfile does not exist
OpenFile ==
    /\ pc = "open"
    /\ calls' = Append(calls, <<"open", outfile>>)
    /\ \E ok \in BOOLEAN :
        IF ok /\ DirName(outfile) = OutDir /\ dir_exists
        THEN /\ fs' = [p \in DOMAIN fs \cup {outfile} |->
                            IF p = outfile THEN <<>> ELSE fs[p]]
             /\ pc' = "write1"
             /\ UNCHANGED <<exit_code, error>>
        ELSE Fail("open") /\ UNCHANGED fs
    /\ UNCHANGED <<world, history, locals, dir_exists>>

WritePc == <<"write1", "write2", "write3", "write4">>

\* lines 98-101: one fd.write; on an OSError the with-block closes the file
\* and the exception ends the run, the file keeping what was written
Write(k) ==
    /\ pc = WritePc[k]
    /\ \E ok \in BOOLEAN :
        IF ok
        THEN /\ fs' = [fs EXCEPT ![outfile] =
                        @ \o FileData(k, yt_title, oai_response_text, ytt_fulltext)]
             /\ pc' = IF k < 4 THEN WritePc[k + 1] ELSE "close"
             /\ UNCHANGED <<exit_code, error>>
        ELSE Fail("write") /\ UNCHANGED fs
    /\ UNCHANGED <<world, history, locals, dir_exists, calls>>

WriteFile == \E k \in 1..4 : Write(k)

\* the with-block and main return: the interpreter exits with status 0
Finish ==
    /\ pc = "close"
    /\ pc' = "done"
    /\ exit_code' = Exit(0)
    /\ history' = history \cup {[vid |-> video_id, second |-> clock,
                                 path |-> outfile]}
    /\ UNCHANGED <<world, locals, disk, calls, error>>

\* ------------------------------------------------------------------ inputs

V1 == <<"x","7">>
V2 == <<"Q","_","k">>
VideoIds == {V1, V2, <<"a","-","b">>, <<"a"," ","b">>, <<"z","/","b">>}

Two == <<"2">>
PromptArgs == {Zero, One, Two, <<"9">>, <<"x">>, <<>>}

SmallArgvs == {<<Script>>, <<Script, V1>>, <<Script, V1, Two>>}
SmallTitles == {<<"H","i">>, <<"H","i","!">>}

PROMPT1 == PromptPrefix \o One
PROMPT2 == PromptPrefix \o Two

TitleChars == {"a", "Z", "5", " ", "-", "_", "!"}

RECURSIVE SeqsUpTo(_, _)
SeqsUpTo(S, n) ==
    IF n = 0 THEN {<<>>}
    ELSE SeqsUpTo(S, n - 1)
            \cup {Append(s, c) : s \in SeqsUpTo(S, n - 1), c \in S}

HelloTitle ==
    <<"H","e","l","l","o",","," ","W","o","r","l","d",
      "!"," ","2","0","2","4"," ","-","-"," ","P","a",
      "r","t"," ","O","n","e"," ","(","F","u","l","l",
      ")">>

LongPlainTitle ==
    <<"A","A","A","A","A","A","A","A","A","A"," ","b",
      "b","b","b","b","b","b","b","b","b"," ","0","1",
      "2","3","4","5","6","7","8">>

RichTitles == SeqsUpTo(TitleChars, MaxTitleLen) \cup
              {HelloTitle, LongPlainTitle, Take(LongPlainTitle, TitleMax)}

\* lines of a section body
BodyLines == { <<"s","u","m">>, <<"S","u","m"," ","U","p">>, <<"k"," ","=","v">>,
               <<"T","o",":"," ","d","o">>, <<"#"," ","c">>, <<"a","l","l">> }
Bodies == SeqsUpTo(BodyLines, MaxLines)
SectionNames == {PROMPT0, PROMPT1, PROMPT2}

SampleFile == File(<< [name |-> PROMPT1, lines |-> << <<"s","u","m">> >>],
                      [name |-> PROMPT2, lines |-> << <<"l","i","s","t">> >>] >>)

IniFiles ==
    {AbsentFile, SampleFile}
    \cup { File(<< [name |-> n, lines |-> b] >>) : n \in SectionNames, b \in Bodies }
    \cup { File(<< [name |-> n1, lines |-> <<l1>>], [name |-> n2, lines |-> <<l2>>] >>) :
            n1 \in SectionNames, n2 \in SectionNames,
            l1 \in BodyLines, l2 \in BodyLines }

\* ------------------------------------------------------------ specification

\* The state the interpreter starts a run in.
Fresh ==
    /\ pc = "start"
    /\ exit_code = Running
    /\ error = "none"
    /\ video_id = Unset
    /\ prompt_id = Unset
    /\ prompts = Empty
    /\ yt_title = Unset
    /\ ytt_fulltext = Unset
    /\ prompt = Unset
    /\ oai_response_text = Unset
    /\ outfile = Unset
    /\ calls = <<>>
    /\ start_disk = [dir |-> dir_exists, fs |-> fs]
    /\ history = {}

Init ==
    /\ env_has_key \in BOOLEAN
    /\ argv \in SmallArgvs
    /\ ini \in {AbsentFile, SampleFile}
    /\ web_title \in SmallTitles
    /\ clock \in {0, 59}
    /\ dir_exists = FALSE
    /\ fs = Empty
    /\ runs = 1
    /\ Fresh

\* The script is started again, later or within the same second, against the
\* disk the earlier runs left.
NewRun ==
    /\ pc \in {"done", "exited"}
    /\ runs < MaxRuns
    /\ runs' = runs + 1
    /\ argv' \in SmallArgvs
    /\ web_title' \in SmallTitles
    /\ \E d \in 0..MaxTick : clock' = clock + d
    /\ pc' = "start"
    /\ exit_code' = Running
    /\ error' = "none"
    /\ video_id' = Unset
    /\ prompt_id' = Unset
    /\ prompts' = Empty
    /\ yt_title' = Unset
    /\ ytt_fulltext' = Unset
    /\ prompt' = Unset
    /\ oai_response_text' = Unset
    /\ outfile' = Unset
    /\ calls' = <<>>
    /\ start_disk' = [dir |-> dir_exists, fs |-> fs]
    /\ UNCHANGED <<env_has_key, ini, disk, history>>

Step ==
    \/ CheckCredential
    \/ CheckArgs
    \/ BindArgs
    \/ LoadPrompts
    \/ GetTitle
    \/ GetTranscript
    \/ SelectPrompt
    \/ Summarize
    \/ MakeFilename
    \/ MakeDirs
    \/ OpenFile
    \/ WriteFile
    \/ Finish

Next == Step \/ NewRun

Spec == Init /\ [][Next]_vars

\* One run over every prompts.ini and prompt-id argument of the bounds.
InitPrompts ==
    /\ env_has_key = TRUE
    /\ argv \in {<<Script>>, <<Script, V1>>} \cup {<<Script, V1, p>> : p \in PromptArgs}
    /\ ini \in IniFiles
    /\ web_title = <<"H","i">>
    /\ clock = 0
    /\ dir_exists = FALSE
    /\ fs = Empty
    /\ runs = 1
    /\ Fresh

SpecPrompts == InitPrompts /\ [][Step]_vars

\* One run over every title and video id of the bounds.
InitFilename ==
    /\ env_has_key \in BOOLEAN
    /\ argv \in {<<Script>>} \cup {<<Script, v>> : v \in VideoIds}
    /\ ini = AbsentFile
    /\ web_title \in RichTitles
    /\ clock \in {0, 59, 600}
    /\ dir_exists \in BOOLEAN
    /\ fs = Empty
    /\ runs = 1
    /\ Fresh

SpecFilename == InitFilename /\ [][Step]_vars

\* ------------------------------------------------------------------ claims

RunOver == pc \in {"done", "exited"}

Kinds == [i \in DOMAIN calls |-> calls[i][1]]

\* title, blank line, summary, two newlines, transcript
FullRecord(title, summary, text) ==
    title \o <<NL>> \o <<NL>> \o summary \o <<NL, NL>> \o text

\* the paths whose file this run created or changed
Touched ==
    { p \in DOMAIN fs : p \notin DOMAIN start_disk.fs \/ fs[p] # start_disk.fs[p] }

\* C1: when a run is over, either it completed and its one output file holds
\* the whole record, or it has created no file and left the disk's files as
\* they were; a file with part of the record is never left behind.
C1_NoPartialOutput ==
    RunOver =>
        \/ /\ pc = "done"
           /\ outfile \in DOMAIN fs
           /\ fs[outfile] = FullRecord(yt_title, oai_response_text, ytt_fulltext)
           /\ Touched \subseteq {outfile}
        \/ fs = start_disk.fs

\* C2: without the credential, or without a video id argument, the run never
\* gets past the two checks: it issues no request, leaves the disk as it was,
\* and when it is over its exit status is 1.
C2_EarlyExit ==
    (~env_has_key \/ Len(argv) < 2) =>
        /\ pc \in {"start", "check_args", "exited"}
        /\ calls = <<>>
        /\ dir_exists = start_disk.dir
        /\ fs = start_disk.fs
        /\ RunOver => exit_code = Exit(1)

C2_Witness ==
    /\ pc = "exited"
    /\ env_has_key
    /\ Len(argv) < 2
    /\ exit_code = Exit(1)
    /\ runs = 2
    /\ start_disk.fs # Empty

\* C3: a run that ends with status 0 has opened exactly one file, and that
\* file holds the fetched title as the endpoint gave it, a blank line, the
\* summary, two newlines and the transcript, so it begins with the title; no
\* other file of the disk has changed.
C3_OutputRecord ==
    pc = "done" =>
        /\ Cardinality({i \in DOMAIN calls : calls[i][1] = "open"}) = 1
        /\ outfile \in DOMAIN fs
        /\ fs[outfile] = web_title \o <<NL>> \o <<NL>> \o WebSummary
                            \o <<NL, NL>> \o JoinWords(WebSnippets)
        /\ SubSeq(fs[outfile], 1, Len(web_title)) = web_title
        /\ Touched \subseteq {outfile}

C3_Witness ==
    /\ pc = "done"
    /\ web_title = <<"H","i","!">>
    /\ outfile \in DOMAIN fs
    /\ SubSeq(fs[outfile], 1, 5) = <<"H","i","!",NL,NL>>
    /\ outfile \notin DOMAIN start_disk.fs

\* C8: a run that ended with status 0 keeps its file when the script runs
\* again for the same video id under another timestamp: the later run's path
\* differs from the earlier one's and the earlier file is as the later run
\* found it; the only file of the disk a run changes is the one at its own
\* path.
C8_DistinctFiles ==
    /\ \A r \in history :
        (outfile # Unset /\ r.vid = video_id /\ r.second # clock) =>
            /\ outfile # r.path
            /\ r.path \in DOMAIN fs
            /\ fs[r.path] = start_disk.fs[r.path]
    /\ \A p \in DOMAIN start_disk.fs :
        (p \in DOMAIN fs /\ fs[p] # start_disk.fs[p]) => p = outfile
    /\ DOMAIN start_disk.fs \subseteq DOMAIN fs

\* two runs for one video id, a second apart, each with its file on disk
C8_Witness ==
    /\ pc = "done"
    /\ runs = 2
    /\ \E r \in history :
        /\ r.vid = video_id
        /\ r.second # clock
        /\ r.path # outfile
        /\ {r.path, outfile} \subseteq DOMAIN fs

\* C10: the requests of a run are a prefix of title fetch, transcript fetch,
\* LLM call, directory creation, file open, each made once; the LLM call is
\* made with both fetches returned, the file is opened with the summary
\* returned, and a run ended by a failed step has made no request after it.
StepOrder == <<"title", "transcript", "llm", "makedirs", "open">>

C10_StepOrder ==
    /\ Len(calls) <= Len(StepOrder)
    /\ Kinds = SubSeq(StepOrder, 1, Len(calls))
    /\ "llm" \in Range(Kinds) => yt_title # Unset /\ ytt_fulltext # Unset
    /\ "open" \in Range(Kinds) => oai_response_text # Unset
    /\ Touched # {} => oai_response_text # Unset
    /\ error \in {"credential", "usage", "config"} => calls = <<>>
    /\ error = "title" => Kinds = <<"title">> /\ yt_title = Unset
    /\ error = "transcript" =>
            Kinds = <<"title", "transcript">> /\ ytt_fulltext = Unset
    /\ error = "llm" =>
            Kinds = <<"title", "transcript", "llm">> /\ oai_response_text = Unset
    /\ error = "makedirs" => Len(calls) = 4 /\ fs = start_disk.fs
    /\ error = "open" => fs = start_disk.fs
    /\ error # "none" => pc = "exited" /\ exit_code = Exit(1)

\* a run ended by the transcript provider, after an earlier complete run
C10_Witness ==
    /\ pc = "exited"
    /\ error = "transcript"
    /\ Kinds = <<"title", "transcript">>
    /\ history # {}

\* the prompt id the caller selected: argv[2], or "1" when it is omitted
Selected == IF Len(argv) > 2 THEN argv[3] ELSE One

\* a section's body: its lines other than blank lines and comments, in file
\* order and unchanged, joined with newlines and trimmed
IsBodyLine(line) == ~IsSkipped(line)
BodyText(section) == Strip(JoinLines(SelectSeq(section.lines, IsBodyLine)))

Selecting == pc \in {"summarize", "make_filename", "makedirs", "open", "write1",
                     "write2", "write3", "write4", "close", "done"}
                \/ error \in {"llm", "makedirs", "open", "write"}

PastLoad == Selecting \/ pc \in {"get_title", "get_transcript", "select_prompt"}
                \/ error \in {"title", "transcript", "lookup"}

\* C4: with a template file, once the prompt is selected it is the body of
\* the section named "prompt p" when the file has one, and the fixed default
\* prompt otherwise; the lookup raises nothing.
C4_PromptSelection ==
    /\ error # "lookup"
    /\ (ini.present /\ Selecting) =>
        IF \E i \in DOMAIN ini.sections : ini.sections[i].name = PromptPrefix \o Selected
        THEN \E i \in DOMAIN ini.sections :
                /\ ini.sections[i].name = PromptPrefix \o Selected
                /\ prompt = BodyText(ini.sections[i])
        ELSE prompt = DefaultPrompt

\* C5: without a template file, whatever prompt id is given, the loaded
\* mapping holds the fallback entry alone, the prompt selected is the default
\* prompt, and the request to the summarizer carries it.
C5_NoTemplateFile ==
    ~ini.present =>
        /\ error \notin {"config", "lookup"}
        /\ PastLoad => prompts = (PROMPT0 :> DefaultPrompt)
        /\ Selecting => prompt = DefaultPrompt
        /\ \A i \in DOMAIN calls :
            calls[i][1] = "llm" =>
                calls[i][2] = DefaultPrompt \o <<NL, NL>> \o JoinWords(WebSnippets)

C5_Witness ==
    /\ ~ini.present
    /\ Len(argv) > 2
    /\ argv[3] = Two
    /\ pc = "make_filename"
    /\ prompt = DefaultPrompt
    /\ Len(calls) = 3

\* C9: with a template file whose section names differ, load_prompts returns,
\* and the entry of every section other than the fallback's is that section's
\* body: its lines in file order, unchanged, joined with newlines, trimmed.
C9_SectionBodies ==
    (/\ ini.present
     /\ \A i, j \in DOMAIN ini.sections :
            ini.sections[i].name = ini.sections[j].name => i = j) =>
        /\ error # "config"
        /\ PastLoad =>
            \A i \in DOMAIN ini.sections :
                ini.sections[i].name # PROMPT0 =>
                    /\ ini.sections[i].name \in DOMAIN prompts
                    /\ prompts[ini.sections[i].name] = BodyText(ini.sections[i])

\* the part of the output path between the underscore that follows the
\* video id and the extension
TitleFragment(path) ==
    SubSeq(path,
           Len(OutDir) + 1 + Len(DateString(clock)) + 1 + Len(video_id) + 1 + 1,
           Len(path) - Len(Ext))

\* C6: the title fragment of the output filename is the title with every
\* character outside [A-Za-z0-9 ] deleted, then cut to 30 characters, then
\* with each space replaced by a hyphen; it has at most 30 characters, all of
\* them letters, digits or hyphens.
C6_TitleFragment ==
    outfile # Unset =>
        /\ TitleFragment(outfile)
                = ReplaceSpaces(Take(StripSpecials(web_title), TitleMax))
        /\ Len(TitleFragment(outfile)) <= TitleMax
        /\ Range(TitleFragment(outfile))
                \subseteq Range(Lowers) \cup Range(Uppers) \cup Range(Digits) \cup {"-"}

\* the title of the example, cut inside its last word
C6_Witness ==
    /\ outfile # Unset
    /\ web_title = HelloTitle
    /\ Len(TitleFragment(outfile)) = TitleMax
    /\ SubSeq(TitleFragment(outfile), 1, 6) = <<"H","e","l","l","o","-">>
    /\ SubSeq(TitleFragment(outfile), 27, 30) = <<"-","F","u","l">>

\* C7: the output path is the directory yt_summaries, then the timestamp, an
\* underscore, the video id as the caller gave it, an underscore, the
\* sanitized title and ".txt"; the file lies directly in yt_summaries.
C7_VerbatimVideoId ==
    outfile # Unset =>
        /\ outfile = OutDir \o <<"/">> \o DateString(clock) \o <<"_">> \o argv[2]
                        \o <<"_">>
                        \o ReplaceSpaces(Take(StripSpecials(web_title), TitleMax))
                        \o Ext
        /\ DirName(outfile) = OutDir

====
